---- MODULE Spec2Model ----
(***************************************************************************)
(* Model of the fluid_sim_paint frame loops.                               *)
(*                                                                         *)
(* The repository holds three generations of the frame loop, all driving   *)
(* the same ping-pong textures:                                            *)
(*   "fluid"    src/state.rs State::render -> Canvas::update ->            *)
(*              canvas_mod/fluid_sim.rs (FluidSim stage sequence)          *)
(*   "canvas"   canvas_mod/canvas.rs Canvas::render (brush by frame parity)*)
(*   "pingpong" canvas/state.rs State::render with record_compute_pass /   *)
(*              record_render_pass (one compute pass by frame parity)      *)
(* A frame records commands into one encoder and submits them; the device  *)
(* then executes the submitted commands one by one, in order.              *)
(*                                                                         *)
(* A texture's content is abstracted to the pass that last wrote it        *)
(* (op, frame, iteration) plus a flag nz: "may hold a non-zero cell".      *)
(***************************************************************************)
EXTENDS Integers, Sequences, FiniteSets, TLC

\* ---------------------------------------------------------------- bounds
MaxFrames == 3
MaxPos == 1
MaxSteps == 2
MaxStamps == 1

\* ------------------------------------------------------ program constants
DiffuseIters == 50
JacobiIters == 40

Builds == {"fluid", "canvas", "pingpong"}
Pos == 0..MaxPos
Viscosities == {0, 1}
GridSizes == {[width |-> 1, height |-> 2], [width |-> 2, height |-> 1]}
Buttons == {"Left", "Right"}
Keys == {"Delete", "Escape", "F11", "Other"}
Sizes == {0, 1}

\* ---------------------------------------------------------------- fields
Textures == {"density_a", "density_b", "velocity_a", "velocity_b",
             "pressure_a", "pressure_b", "divergence", "temp_density"}

Zero == [op |-> "zero", fr |-> 0, it |-> 0, nz |-> FALSE]

Upload == [op |-> "upload", fr |-> 0, it |-> 0, nz |-> TRUE]

\* Texture::create_storage_texture: the extent of a texture created for a grid
create_storage_texture_square(width, height) == [width |-> width, height |-> width]
create_storage_texture(width, height) == [width |-> width, height |-> height]

\* create_sim_textures: the extents of the textures it creates
create_sim_textures_size(sim_width, sim_height) ==
    [t \in Textures |-> create_storage_texture(sim_width, sim_height)]

\* create_sim_textures: every texture is created zero-initialised
create_sim_textures == [t \in Textures |-> Zero]

\* create_ping_pong_textures: as above, then the wind is written to velocity_a
create_ping_pong_textures == [create_sim_textures EXCEPT !["velocity_a"] = Upload]

\* ------------------------------------------------------ bind group layouts
\* binding -> "in" (sampled texture) / "out" (write-only storage texture);
\* uniform buffers and samplers are left out
advect_layout == (1 :> "in" @@ 2 :> "in" @@ 3 :> "out" @@ 4 :> "out")
brush_layout == (1 :> "in" @@ 2 :> "out" @@ 3 :> "in" @@ 4 :> "out")
div_layout == (1 :> "in" @@ 2 :> "out")
jacobi_layout == (1 :> "in" @@ 2 :> "in" @@ 3 :> "out")
sub_layout == (1 :> "in" @@ 2 :> "in" @@ 3 :> "out")
diffuse_layout == (1 :> "in" @@ 2 :> "in" @@ 3 :> "out")
compute_layout == (0 :> "in" @@ 1 :> "out" @@ 3 :> "in" @@ 5 :> "out")

Ins(layout, bg) == {bg[b] : b \in {c \in DOMAIN bg : layout[c] = "in"}}
Outs(layout, bg) == {bg[b] : b \in {c \in DOMAIN bg : layout[c] = "out"}}

\* ------------------------------------------------- FluidSim::new bind groups
advect_bind_group_rw == (1 :> "velocity_a" @@ 2 :> "density_a" @@ 3 :> "velocity_b" @@ 4 :> "density_a")
advect_bind_group == (1 :> "velocity_a" @@ 2 :> "density_a" @@ 3 :> "velocity_b" @@ 4 :> "density_b")

brush_bind_group_toB == (1 :> "density_a" @@ 2 :> "density_b" @@ 3 :> "velocity_a" @@ 4 :> "velocity_b")
brush_bind_group == (1 :> "density_b" @@ 2 :> "density_a" @@ 3 :> "velocity_b" @@ 4 :> "velocity_a")

div_bind_group_velB == (1 :> "velocity_b" @@ 2 :> "divergence")
div_bind_group == (1 :> "velocity_a" @@ 2 :> "divergence")

\* as create_jacobi, but the iteration reads the slot it writes
create_jacobi_inplace(in_p, out_p) == (1 :> out_p @@ 2 :> "divergence" @@ 3 :> out_p)
create_jacobi(in_p, out_p) == (1 :> in_p @@ 2 :> "divergence" @@ 3 :> out_p)

jacobi_bind_groups_swapped == <<create_jacobi("pressure_b", "pressure_a"), create_jacobi("pressure_a", "pressure_b")>>
jacobi_bind_groups == <<create_jacobi("pressure_a", "pressure_b"), create_jacobi("pressure_b", "pressure_a")>>

\* as sub_bind_group, but the corrected velocity lands in the divergence texture
sub_bind_group_div == (1 :> "pressure_a" @@ 2 :> "velocity_a" @@ 3 :> "divergence")
sub_bind_group == (1 :> "pressure_a" @@ 2 :> "velocity_a" @@ 3 :> "velocity_b")

create_diffuse_bg_self(x_in, b_in, x_out) == (1 :> x_in @@ 2 :> x_in @@ 3 :> x_out)
create_diffuse_bg(x_in, b_in, x_out) == (1 :> x_in @@ 2 :> b_in @@ 3 :> x_out)

diffuse_bind_groups_swapped == <<create_diffuse_bg("density_b", "temp_density", "density_a"), create_diffuse_bg("density_a", "temp_density", "density_b")>>
diffuse_bind_groups == <<create_diffuse_bg("density_a", "temp_density", "density_b"), create_diffuse_bg("density_b", "temp_density", "density_a")>>

\* ------------------------------------------------------------- commands
NoCmd == [kind |-> "none", op |-> "none", it |-> 0, reads |-> {}, writes |-> {}]
Dispatch(op, it, layout, bg) == [kind |-> "dispatch", op |-> op, it |-> it, reads |-> Ins(layout, bg), writes |-> Outs(layout, bg)]
CopyTex(op, src, dst) == [kind |-> "copy", op |-> op, it |-> 0, reads |-> {src}, writes |-> {dst}]
ClearTex(t) == [kind |-> "clear", op |-> "clear", it |-> 0, reads |-> {}, writes |-> {t}]
DrawPass_writes(op, sampled) == [kind |-> "draw", op |-> op, it |-> 0, reads |-> sampled, writes |-> sampled]
DrawPass(op, sampled) == [kind |-> "draw", op |-> op, it |-> 0, reads |-> sampled, writes |-> {}]

\* ------------------------------------------------------ FluidSim operations
diffuse_always(viscosity) ==
    <<CopyTex("snapshot", "density_a", "temp_density")>>
    \o [i \in 1..DiffuseIters |-> Dispatch("diffuse", i - 1, diffuse_layout, diffuse_bind_groups[((i - 1) % 2) + 1])]
diffuse(viscosity) ==
    IF viscosity <= 0 THEN << >>
    ELSE <<CopyTex("snapshot", "density_a", "temp_density")>>
         \o [i \in 1..DiffuseIters |-> Dispatch("diffuse", i - 1, diffuse_layout, diffuse_bind_groups[((i - 1) % 2) + 1])]

project_nocopy ==
    <<Dispatch("divergence", 0, div_layout, div_bind_group)>>
    \o [i \in 1..JacobiIters |-> Dispatch("jacobi", i - 1, jacobi_layout, jacobi_bind_groups[((i - 1) % 2) + 1])]
    \o <<Dispatch("subtract", 0, sub_layout, sub_bind_group)>>
project ==
    <<Dispatch("divergence", 0, div_layout, div_bind_group)>>
    \o [i \in 1..JacobiIters |-> Dispatch("jacobi", i - 1, jacobi_layout, jacobi_bind_groups[((i - 1) % 2) + 1])]
    \o <<Dispatch("subtract", 0, sub_layout, sub_bind_group),
         CopyTex("copy_back", "velocity_b", "velocity_a")>>

advect == <<Dispatch("advect", 0, advect_layout, advect_bind_group)>>

add_forces == <<Dispatch("brush", 0, brush_layout, brush_bind_group)>>

clear_partial == <<ClearTex("density_a"), ClearTex("density_b"), ClearTex("velocity_a"), ClearTex("velocity_b"), ClearTex("pressure_a"), ClearTex("divergence")>>
clear == <<ClearTex("density_a"), ClearTex("density_b"), ClearTex("velocity_a"), ClearTex("velocity_b"), ClearTex("pressure_a"), ClearTex("pressure_b"), ClearTex("divergence")>>

\* ------------------------------------------------------- uniform buffers
\* a rational number is a pair <<numerator, denominator>>
Dt == <<16, 1000>>
\* GuiParams::default, zoom_level: 0.8
zoom_level == <<4, 5>>

RatDiv(a, b) == <<a[1] * b[2], a[2] * b[1]>>
RatMul(a, b) == <<a[1] * b[1], a[2] * b[2]>>
RatAdd(a, b) == <<a[1] * b[2] + b[1] * a[2], a[2] * b[2]>>

\* the buffers as the pipelines' constructors fill them; fr is the frame of
\* the last queue.write_buffer, 0 for the initial data
InitialUniforms(g) ==
    [diffuse |-> [fr |-> 0, width |-> g.width, height |-> g.height, alpha |-> <<0, 1>>, one_over_beta |-> <<0, 1>>],
     advect |-> [fr |-> 0, dt |-> Dt, width |-> g.width, height |-> g.height],
     brush |-> [fr |-> 0, mouse_pos |-> 0, last_mouse_pos |-> 0, unit |-> 1],
     view |-> [fr |-> 0, screen_size |-> 0, canvas_size |-> g.width, zoom |-> <<0, 1>>]]

\* FluidSim::diffuse, the locals dx, alpha and beta; viscosity is a rational
Dx == <<1, 1>>
diffuse_alpha(viscosity) == RatDiv(RatMul(Dx, Dx), RatMul(viscosity, Dt))
\* as diffuse_beta, but without the four neighbours
diffuse_beta_alpha_only(viscosity) == diffuse_alpha(viscosity)
diffuse_beta(viscosity) == RatAdd(<<4, 1>>, diffuse_alpha(viscosity))

\* FluidSim::diffuse, the queue.write_buffer part
diffuse_write_buffer(u, f, g, viscosity) ==
    IF viscosity <= 0 THEN u
    ELSE [u EXCEPT !.diffuse = [fr |-> f, width |-> g.width, height |-> g.height,
                                alpha |-> diffuse_alpha(<<viscosity, 1>>),
                                one_over_beta |-> RatDiv(<<1, 1>>, diffuse_beta(<<viscosity, 1>>))]]

\* FluidSim::advect, the queue.write_buffer part
advect_write_buffer(u, f, g) ==
    [u EXCEPT !.advect = [fr |-> f, dt |-> Dt, width |-> g.width, height |-> g.height]]

\* FluidSim::add_forces, the queue.write_buffer part; positions are in grid
\* space, in units of 1 / unit cells
add_forces_write_buffer(u, f, current_pos, last_pos, unit) ==
    [u EXCEPT !.brush = [fr |-> f, mouse_pos |-> current_pos, last_mouse_pos |-> last_pos, unit |-> unit]]

\* to_grid: grid_center + (screen_pos - screen_center) / zoom, with
\* zoom = n / d, multiplied by GridUnit(zoom) = 2 * n to stay in the integers
GridUnit(zoom) == 2 * zoom[1]

to_grid(screen_pos, screen_width, grid_width, zoom) ==
    zoom[1] * grid_width + zoom[2] * (2 * screen_pos - screen_width)

\* ---------------------------------------------- Canvas (caller of FluidSim)
\* pass-through of the advected result on a frame without a brush stamp
copy_through == <<CopyTex("copy_through", "density_b", "density_a"), CopyTex("copy_through", "velocity_b", "velocity_a")>>

\* Canvas::update(queue, encoder, input, params, screen)
Canvas_update(clear_req, pressed, viscosity) ==
    IF clear_req THEN clear
    ELSE diffuse(viscosity) \o advect \o (IF pressed THEN add_forces ELSE copy_through) \o project

\* Canvas::update, the uniform writes of the stages it calls
Canvas_update_buffers(u, f, g, screen_width, clear_req, pressed, viscosity, zoom, pos, last_pos) ==
    IF clear_req THEN u
    ELSE LET u1 == diffuse_write_buffer(u, f, g, viscosity)
             u2 == advect_write_buffer(u1, f, g)
         IN IF pressed
            THEN add_forces_write_buffer(u2, f, to_grid(pos, screen_width, g.width, zoom),
                                         to_grid(last_pos, screen_width, g.width, zoom), GridUnit(zoom))
            ELSE u2

\* Canvas::render samples the authoritative density slot; Gui::render draws the panel
Canvas_render_pass == <<DrawPass("canvas", {"density_a"})>>
Gui_render == <<DrawPass("gui", {})>>

\* ------------------------------------ canvas_mod/canvas.rs (brush by parity)
create_brush_bg(in_den, out_den, in_vel, out_vel) == (1 :> in_den @@ 2 :> out_den @@ 3 :> in_vel @@ 4 :> out_vel)

brush_bind_groups == <<create_brush_bg("density_a", "density_b", "velocity_a", "velocity_b"), create_brush_bg("density_b", "density_a", "velocity_b", "velocity_a")>>

render_bind_groups == <<{"density_a"}, {"density_b"}>>

\* ----------------------------------------- canvas/ (one compute pass by parity)
create_bg(den_in, den_out, vel_in, vel_out) == (0 :> den_in @@ 1 :> den_out @@ 3 :> vel_in @@ 5 :> vel_out)

bind_group_a == create_bg("density_a", "density_b", "velocity_a", "velocity_b")
bind_group_b == create_bg("density_b", "density_a", "velocity_b", "velocity_a")

\* as record_compute_pass, but with the two bind groups exchanged
record_compute_pass_flipped(n) == <<Dispatch("compute", 0, compute_layout, IF n % 2 = 0 THEN bind_group_b ELSE bind_group_a)>>
record_compute_pass(n) == <<Dispatch("compute", 0, compute_layout, IF n % 2 = 0 THEN bind_group_a ELSE bind_group_b)>>

record_render_pass(n) == <<DrawPass("render", IF n % 2 = 0 THEN {"density_b"} ELSE {"density_a"})>>

\* ------------------------------------------------------------ field slots
FieldOf(t) ==
    CASE t \in {"density_a", "density_b"} -> "density"
      [] t \in {"velocity_a", "velocity_b"} -> "velocity"
      [] t \in {"pressure_a", "pressure_b"} -> "pressure"
      [] OTHER -> t

\* ------------------------------------------------------------------ state
VARIABLES build, tex, fresh, batch, done, last, frames, snap,
          is_surface_configured, mouse_pos, last_mouse_pos, mouse_pressed,
          clear_requested, frame_num,
          result, uniform, sim, size, config, kernel, trace, calc

vars == <<build, tex, fresh, batch, done, last, frames, snap, is_surface_configured,
          mouse_pos, last_mouse_pos, mouse_pressed, clear_requested, frame_num,
          result, uniform, sim, size, config, kernel, trace, calc>>

\* the grid and the extents of its textures
grid == <<sim, size>>

input == <<mouse_pos, last_mouse_pos, mouse_pressed, clear_requested>>

NoSnap == [clear |-> FALSE, pressed |-> FALSE, viscosity |-> 0, from |-> 0, to |-> 0]

Idle == done = Len(batch)

\* the cell values of a grid are followed in SpecKernel only
KernelOff == [phase |-> "off"]

\* the arithmetic of single values is followed in SpecArith only
CalcOff == [phase |-> "off"]

\* the window events the handlers are called with; trace is the most recent
\* one, with left = the polarity of the most recent Left click (FALSE while
\* there was none); it is followed in SpecInput only
NoEvent == [kind |-> "none", pressed |-> FALSE, button |-> "none", key |-> "none", width |-> 0, height |-> 0]
CursorMoved == [NoEvent EXCEPT !.kind = "mouse"]
MouseInput(pressed, button) == [NoEvent EXCEPT !.kind = "click", !.pressed = pressed, !.button = button]
KeyboardInput(key, pressed) == [NoEvent EXCEPT !.kind = "key", !.key = key, !.pressed = pressed]
Resized(width, height) == [NoEvent EXCEPT !.kind = "resize", !.width = width, !.height = height]
RedrawRequested == [NoEvent EXCEPT !.kind = "frame"]

TraceOff == [kind |-> "off"]
TraceStart == NoEvent @@ [left |-> FALSE]

Log(t, e) ==
    IF t.kind = "off" THEN t
    ELSE e @@ [left |-> IF e.kind = "click" /\ e.button = "Left" THEN e.pressed ELSE t.left]

InitProgram(grids) ==
    /\ build \in Builds
    /\ tex = IF build = "pingpong" THEN create_ping_pong_textures ELSE create_sim_textures
    /\ fresh = {x \in Textures : \A y \in Textures : FieldOf(y) = FieldOf(x) /\ tex[y] # tex[x] => tex[y] = Zero}
    /\ batch = << >>
    /\ done = 0
    /\ last = [cmd |-> NoCmd, saw |-> tex, fresh |-> fresh]
    /\ frames = 0
    /\ snap = NoSnap
    /\ is_surface_configured = FALSE
    /\ mouse_pos = 0
    /\ last_mouse_pos = 0
    /\ mouse_pressed = FALSE
    /\ clear_requested = FALSE
    /\ frame_num = 0
    /\ result = "none"
    /\ sim \in grids
    /\ size = create_sim_textures_size(sim.width, sim.height)
    /\ uniform = InitialUniforms(sim)
    /\ config = [width |-> 0, height |-> 0]

Init ==
    /\ InitProgram(GridSizes)
    /\ kernel = KernelOff
    /\ trace = TraceOff
    /\ calc = CalcOff

\* ------------------------------------------------------------ the device
\* a kernel maps all-zero inputs to an all-zero output, except the brush,
\* which blends toward brush_color
KernelNz(cmd, t) == cmd.op = "brush" \/ \E r \in cmd.reads : t[r].nz

Exec(cmd, t) ==
    CASE cmd.kind = "dispatch" ->
           [x \in Textures |-> IF x \in cmd.writes
                               THEN [op |-> cmd.op, fr |-> frames, it |-> cmd.it, nz |-> KernelNz(cmd, t)]
                               ELSE t[x]]
      [] cmd.kind = "copy" ->
           [x \in Textures |-> IF x \in cmd.writes THEN t[CHOOSE s \in cmd.reads : TRUE] ELSE t[x]]
      [] cmd.kind = "clear" ->
           [x \in Textures |-> IF x \in cmd.writes THEN Zero ELSE t[x]]
      [] OTHER -> t

\* the slots that hold the most recently written value of their field
Fresh(cmd, f, t) ==
    {x \in Textures :
        IF \E w \in cmd.writes : FieldOf(w) = FieldOf(x)
        THEN \E w \in cmd.writes : FieldOf(w) = FieldOf(x) /\ t[x] = t[w]
        ELSE x \in f}

\* the device executes the next command of the submitted batch; last records
\* the command with the contents and the fresh slots it found
GpuStep ==
    /\ done < Len(batch)
    /\ done' = done + 1
    /\ last' = [cmd |-> batch[done + 1], saw |-> tex, fresh |-> fresh]
    /\ tex' = Exec(batch[done + 1], tex)
    /\ fresh' = Fresh(batch[done + 1], fresh, tex')
    /\ UNCHANGED trace
    /\ UNCHANGED <<build, batch, frames, snap, is_surface_configured, input, frame_num>>
    /\ UNCHANGED <<result, uniform, grid, kernel, calc, config>>

\* ------------------------------------------------------- src/state.rs State
\* as handle_mouse, but the event also moves the start of the brush segment
handle_mouse_both(pos) ==
    /\ Idle
    /\ mouse_pos' = pos
    /\ trace' = Log(trace, CursorMoved)
    /\ last_mouse_pos' = pos
    /\ UNCHANGED <<build, tex, fresh, batch, done, last, frames, snap, is_surface_configured,
                   mouse_pressed, clear_requested, frame_num>>
    /\ UNCHANGED <<result, uniform, grid, kernel, calc, config>>

handle_mouse(pos) ==
    /\ Idle
    /\ mouse_pos' = pos
    /\ trace' = Log(trace, CursorMoved)
    /\ UNCHANGED <<build, tex, fresh, batch, done, last, frames, snap, is_surface_configured,
                   last_mouse_pos, mouse_pressed, clear_requested, frame_num>>
    /\ UNCHANGED <<result, uniform, grid, kernel, calc, config>>

\* as handle_click, but for every button
handle_click_any_button(pressed, button) ==
    /\ Idle
    /\ mouse_pressed' = pressed
    /\ trace' = Log(trace, MouseInput(pressed, button))
    /\ UNCHANGED <<build, tex, fresh, batch, done, last, frames, snap, is_surface_configured,
                   mouse_pos, last_mouse_pos, clear_requested, frame_num>>
    /\ UNCHANGED <<result, uniform, grid, kernel, calc, config>>

handle_click(pressed, button) ==
    /\ Idle
    /\ mouse_pressed' = IF button = "Left" THEN pressed ELSE mouse_pressed
    /\ trace' = Log(trace, MouseInput(pressed, button))
    /\ UNCHANGED <<build, tex, fresh, batch, done, last, frames, snap, is_surface_configured,
                   mouse_pos, last_mouse_pos, clear_requested, frame_num>>
    /\ UNCHANGED <<result, uniform, grid, kernel, calc, config>>

\* as resize, but without the test for an empty size
resize_unguarded(width, height) ==
    /\ Idle
    /\ is_surface_configured' = TRUE
    /\ config' = [width |-> width, height |-> height]
    /\ trace' = Log(trace, Resized(width, height))
    /\ UNCHANGED <<build, tex, fresh, batch, done, last, frames, snap, input, frame_num>>
    /\ UNCHANGED <<result, uniform, grid, kernel, calc>>

resize(width, height) ==
    /\ Idle
    /\ is_surface_configured' = IF width > 0 /\ height > 0 THEN TRUE ELSE is_surface_configured
    /\ config' = IF width > 0 /\ height > 0 THEN [width |-> width, height |-> height] ELSE config
    /\ trace' = Log(trace, Resized(width, height))
    /\ UNCHANGED <<build, tex, fresh, batch, done, last, frames, snap, input, frame_num>>
    /\ UNCHANGED <<result, uniform, grid, kernel, calc>>

\* as handle_key, but without the early return on a release
handle_key_on_release(key, pressed) ==
    /\ Idle
    /\ clear_requested' = IF key = "Delete" /\ build = "fluid" THEN TRUE ELSE clear_requested
    /\ trace' = Log(trace, KeyboardInput(key, pressed))
    /\ UNCHANGED <<build, tex, fresh, batch, done, last, frames, snap, is_surface_configured,
                   mouse_pos, last_mouse_pos, mouse_pressed, frame_num>>
    /\ UNCHANGED <<result, uniform, grid, kernel, calc, config>>

\* as handle_key, but a second Delete withdraws the request
handle_key_toggle(key, pressed) ==
    /\ Idle
    /\ clear_requested' = IF pressed /\ key = "Delete" /\ build = "fluid" THEN ~clear_requested ELSE clear_requested
    /\ trace' = Log(trace, KeyboardInput(key, pressed))
    /\ UNCHANGED <<build, tex, fresh, batch, done, last, frames, snap, is_surface_configured,
                   mouse_pos, last_mouse_pos, mouse_pressed, frame_num>>
    /\ UNCHANGED <<result, uniform, grid, kernel, calc, config>>

handle_key(key, pressed) ==
    /\ Idle
    /\ clear_requested' = IF pressed /\ key = "Delete" /\ build = "fluid" THEN TRUE ELSE clear_requested
    /\ trace' = Log(trace, KeyboardInput(key, pressed))
    /\ UNCHANGED <<build, tex, fresh, batch, done, last, frames, snap, is_surface_configured,
                   mouse_pos, last_mouse_pos, mouse_pressed, frame_num>>
    /\ UNCHANGED <<result, uniform, grid, kernel, calc, config>>

\* as render_early_return, but the pointer bookkeeping of a frame is done
render_early_return_advances ==
    /\ result' = IF is_surface_configured THEN "error" ELSE "skipped"
    /\ trace' = Log(trace, RedrawRequested)
    /\ last_mouse_pos' = mouse_pos
    /\ UNCHANGED <<build, tex, fresh, batch, done, last, frames, snap, is_surface_configured,
                   mouse_pos, mouse_pressed, clear_requested, frame_num, uniform, grid, kernel, calc, config>>

\* State::render returning before an encoder exists: Ok(()) when the surface
\* is not configured, the error of get_current_texture() otherwise
render_early_return ==
    /\ result' = IF is_surface_configured THEN "error" ELSE "skipped"
    /\ trace' = Log(trace, RedrawRequested)
    /\ UNCHANGED <<build, tex, fresh, batch, done, last, frames, snap, is_surface_configured,
                   input, frame_num, uniform, grid, kernel, calc, config>>

\* as State_render, but clear_requested is reset before the canvas update
State_render_reset_first(acquired, viscosity) ==
    /\ build = "fluid"
    /\ Idle
    /\ frames < MaxFrames
    /\ IF is_surface_configured /\ acquired
       THEN /\ batch' = Canvas_update(FALSE, mouse_pressed, viscosity) \o Canvas_render_pass \o Gui_render
            /\ uniform' = Canvas_update_buffers(uniform, frames + 1, sim, config.width, FALSE, mouse_pressed,
                                                viscosity, zoom_level, mouse_pos, last_mouse_pos)
            /\ done' = 0
            /\ snap' = [clear |-> clear_requested, pressed |-> mouse_pressed, viscosity |-> viscosity,
                        from |-> last_mouse_pos, to |-> mouse_pos]
            /\ clear_requested' = FALSE
            /\ last_mouse_pos' = mouse_pos
            /\ frames' = frames + 1
            /\ last' = [cmd |-> NoCmd, saw |-> tex, fresh |-> fresh]
            /\ result' = "ok"
            /\ trace' = Log(trace, RedrawRequested)
            /\ UNCHANGED <<build, tex, fresh, is_surface_configured, mouse_pos, mouse_pressed, frame_num>>
            /\ UNCHANGED <<grid, kernel, calc, config>>
       ELSE render_early_return

\* as State_render, but the canvas is drawn before its update is recorded
State_render_draws_first(acquired, viscosity) ==
    /\ build = "fluid"
    /\ Idle
    /\ frames < MaxFrames
    /\ IF is_surface_configured /\ acquired
       THEN /\ batch' = Canvas_render_pass \o Canvas_update(clear_requested, mouse_pressed, viscosity) \o Gui_render
            /\ uniform' = Canvas_update_buffers(uniform, frames + 1, sim, config.width, clear_requested, mouse_pressed,
                                                viscosity, zoom_level, mouse_pos, last_mouse_pos)
            /\ done' = 0
            /\ snap' = [clear |-> clear_requested, pressed |-> mouse_pressed, viscosity |-> viscosity,
                        from |-> last_mouse_pos, to |-> mouse_pos]
            /\ clear_requested' = FALSE
            /\ last_mouse_pos' = mouse_pos
            /\ frames' = frames + 1
            /\ last' = [cmd |-> NoCmd, saw |-> tex, fresh |-> fresh]
            /\ result' = "ok"
            /\ trace' = Log(trace, RedrawRequested)
            /\ UNCHANGED <<build, tex, fresh, is_surface_configured, mouse_pos, mouse_pressed, frame_num>>
            /\ UNCHANGED <<grid, kernel, calc, config>>
       ELSE render_early_return

\* State::render: one frame, recorded into one encoder and submitted once;
\* acquired = FALSE is surface.get_current_texture() returning an error;
\* snap is the input as the frame found it
State_render(acquired, viscosity) ==
    /\ build = "fluid"
    /\ Idle
    /\ frames < MaxFrames
    /\ IF is_surface_configured /\ acquired
       THEN /\ batch' = Canvas_update(clear_requested, mouse_pressed, viscosity) \o Canvas_render_pass \o Gui_render
            /\ uniform' = Canvas_update_buffers(uniform, frames + 1, sim, config.width, clear_requested, mouse_pressed,
                                                viscosity, zoom_level, mouse_pos, last_mouse_pos)
            /\ done' = 0
            /\ snap' = [clear |-> clear_requested, pressed |-> mouse_pressed, viscosity |-> viscosity,
                        from |-> last_mouse_pos, to |-> mouse_pos]
            /\ clear_requested' = FALSE
            /\ last_mouse_pos' = mouse_pos
            /\ frames' = frames + 1
            /\ last' = [cmd |-> NoCmd, saw |-> tex, fresh |-> fresh]
            /\ result' = "ok"
            /\ trace' = Log(trace, RedrawRequested)
            /\ UNCHANGED <<build, tex, fresh, is_surface_configured, mouse_pos, mouse_pressed, frame_num>>
            /\ UNCHANGED <<grid, kernel, calc, config>>
       ELSE render_early_return

\* as update_brush, but without the early return
update_brush_always ==
    /\ build = "canvas"
    /\ Idle
    /\ frames < MaxFrames
    /\ uniform' = add_forces_write_buffer(uniform, frames + 1,
                                          to_grid(mouse_pos, config.width, sim.width, zoom_level),
                                          to_grid(last_mouse_pos, config.width, sim.width, zoom_level),
                                          GridUnit(zoom_level))
    /\ UNCHANGED <<build, tex, fresh, batch, done, last, frames, snap, is_surface_configured, input, frame_num>>
    /\ UNCHANGED <<result, grid, kernel, calc, config, trace>>

\* canvas_mod/canvas.rs Canvas::update_brush(queue, input, params, screen_size),
\* called ahead of the frame frames + 1
update_brush ==
    /\ build = "canvas"
    /\ Idle
    /\ frames < MaxFrames
    /\ uniform' = IF ~mouse_pressed THEN uniform
                  ELSE add_forces_write_buffer(uniform, frames + 1,
                                               to_grid(mouse_pos, config.width, sim.width, zoom_level),
                                               to_grid(last_mouse_pos, config.width, sim.width, zoom_level),
                                               GridUnit(zoom_level))
    /\ UNCHANGED <<build, tex, fresh, batch, done, last, frames, snap, is_surface_configured, input, frame_num>>
    /\ UNCHANGED <<result, grid, kernel, calc, config, trace>>

\* canvas_mod/canvas.rs Canvas::render(encoder, view, queue, params, screen_size, input)
Canvas_render ==
    /\ build = "canvas"
    /\ Idle
    /\ frames < MaxFrames
    /\ LET in_index == frame_num % 2
           render_index == (frame_num + 1) % 2
       IN batch' = (IF mouse_pressed
                    THEN <<Dispatch("brush", 0, brush_layout, brush_bind_groups[in_index + 1])>>
                    ELSE << >>)
                   \o <<DrawPass("render", render_bind_groups[render_index + 1])>>
    /\ done' = 0
    /\ snap' = [clear |-> clear_requested, pressed |-> mouse_pressed, viscosity |-> 0,
                from |-> last_mouse_pos, to |-> mouse_pos]
    /\ uniform' = [uniform EXCEPT !.view = [fr |-> frames + 1, screen_size |-> config.width,
                                            canvas_size |-> sim.width, zoom |-> zoom_level]]
    /\ frame_num' = frame_num + 1
    /\ trace' = Log(trace, RedrawRequested)
    /\ frames' = frames + 1
    /\ last' = [cmd |-> NoCmd, saw |-> tex, fresh |-> fresh]
    /\ UNCHANGED <<build, tex, fresh, is_surface_configured, input>>
    /\ UNCHANGED <<result, grid, kernel, calc, config>>

\* canvas/state.rs State::render with record_compute_pass / record_render_pass
PingPong_render(acquired) ==
    /\ build = "pingpong"
    /\ Idle
    /\ frames < MaxFrames
    /\ IF is_surface_configured /\ acquired
       THEN /\ batch' = record_compute_pass(frame_num) \o record_render_pass(frame_num)
            /\ done' = 0
            /\ snap' = [clear |-> clear_requested, pressed |-> mouse_pressed, viscosity |-> 0,
                        from |-> last_mouse_pos, to |-> mouse_pos]
            /\ frame_num' = frame_num + 1
            /\ frames' = frames + 1
            /\ last' = [cmd |-> NoCmd, saw |-> tex, fresh |-> fresh]
            /\ result' = "ok"
            /\ trace' = Log(trace, RedrawRequested)
            /\ UNCHANGED <<build, tex, fresh, is_surface_configured, input>>
            /\ UNCHANGED <<uniform, grid, kernel, calc, config>>
       ELSE render_early_return

Next ==
    \/ GpuStep
    \/ \E p \in Pos : handle_mouse(p)
    \/ \E s \in BOOLEAN, b \in Buttons : handle_click(s, b)
    \/ \E w \in Sizes, h \in Sizes : resize(w, h)
    \/ \E k \in Keys, p \in BOOLEAN : handle_key(k, p)
    \/ \E a \in BOOLEAN, v \in Viscosities : State_render(a, v)
    \/ update_brush
    \/ Canvas_render
    \/ \E a \in BOOLEAN : PingPong_render(a)

Spec == Init /\ [][Next]_vars

\* the same program with the window events on record
InputGrid == [width |-> 2, height |-> 1]
InputPos == {0, 1}

InitInput ==
    /\ InitProgram({InputGrid})
    /\ build \in {"fluid", "pingpong"}
    /\ kernel = KernelOff
    /\ trace = TraceStart
    /\ calc = CalcOff

\* the two State types (src/state.rs, src/canvas/state.rs) under every event
NextInput ==
    \/ GpuStep
    \/ \E p \in InputPos : handle_mouse(p)
    \/ \E s \in BOOLEAN, b \in Buttons : handle_click(s, b)
    \/ \E w \in Sizes, h \in Sizes : resize(w, h)
    \/ \E k \in Keys, p \in BOOLEAN : handle_key(k, p)
    \/ \E a \in BOOLEAN : State_render(a, 0)
    \/ \E a \in BOOLEAN : PingPong_render(a)

SpecInput == InitInput /\ [][NextInput]_vars

\* ------------------------------------------- the kernels, cell by cell
\* One row of cells of a grid: the advection and brush kernels as the design
\* document describes them, driven with the bind groups and the uniforms of
\* FluidSim. Cell values are integers over a common denominator kept in unit:
\* a density d stands for d / unit, a velocity v for a displacement of
\* v / unit cell widths per step (dt * velocity).
KernelGrid == [width |-> 3, height |-> 1]
Cells == 0..(KernelGrid.width - 1)
InkDecays == {<<9, 10>>, <<1, 1>>}
KernelDensities == {0, 1}
KernelVelocities == {-1, 0, 2}
\* pointer positions in grid space, in half cell widths
KernelPos == {0, 2, 3, 5} \X {0, 1}
\* strokes <<last_pos, current_pos>>: the pointer at rest, or coming from the
\* middle of the row
KernelStrokes == {s \in KernelPos \X KernelPos : s[1] = s[2] \/ s[1] = <<3, 1>>}
BrushSizes == {<<1, 5>>, <<2, 5>>}

\* FluidSim::advect, the AdvectionUniforms it uploads
AdvectionUniforms_grow(params) ==
    [dt |-> Dt, velocity_decay |-> params.velocity_decay,
     ink_decay |-> <<params.ink_decay[2], params.ink_decay[1]>>]
AdvectionUniforms(params) ==
    [dt |-> Dt, velocity_decay |-> params.velocity_decay, ink_decay |-> params.ink_decay]

\* FluidSim::add_forces, the BrushUniforms it uploads
BrushUniforms(current_pos, last_pos, params) ==
    [mouse_pos |-> current_pos, last_mouse_pos |-> last_pos,
     radius |-> RatDiv(params.brush_size, params.zoom_level)]

\* sampling outside the grid clamps to the nearest boundary cell
clamp(i) == IF i < 0 THEN 0 ELSE IF i > KernelGrid.width - 1 THEN KernelGrid.width - 1 ELSE i

\* linear sample of field f at pos / unit cell widths right of the centre of
\* cell 0, multiplied by unit
sample(f, pos, unit) ==
    LET i0 == pos \div unit
        fr == pos % unit
    IN (unit - fr) * f[clamp(i0)] + fr * f[clamp(i0 + 1)]

\* the advection kernel: backtrace by dt * velocity, sample, decay
advect_cells(k, bg, u) ==
    LET vin == bg[1]
        din == bg[2]
        vout == bg[3]
        dout == bg[4]
        U == k.unit[vin]
        src(x) == x * U - k.f[vin][x]
    IN [k EXCEPT !.f = [@ EXCEPT ![vout] = [x \in Cells |-> u.velocity_decay[1] * sample(k.f[vin], src(x), U)],
                                 ![dout] = [x \in Cells |-> u.ink_decay[1] * sample(k.f[din], src(x), U)]],
                 !.unit = [@ EXCEPT ![vout] = U * U * u.velocity_decay[2],
                                    ![dout] = k.unit[din] * U * u.ink_decay[2]]]

\* the centre of cell x of the row, in half cell widths
Centre(x) == <<2 * x + 1, 1>>

Dot(p, q) == p[1] * q[1] + p[2] * q[2]
Minus(p, q) == <<p[1] - q[1], p[2] - q[2]>>

\* the distance from c to the segment a b is at most radius (a rational, in
\* cell widths; c, a and b in half cell widths)
WithinRadius(c, a, b, radius) ==
    LET ab == Minus(b, a)
        ac == Minus(c, a)
        bc == Minus(c, b)
        L == Dot(ab, ab)
        t == Dot(ac, ab)
        rn2 == 4 * radius[1] * radius[1]
        rd2 == radius[2] * radius[2]
    IN IF L = 0 \/ t <= 0 THEN Dot(ac, ac) * rd2 <= rn2
       ELSE IF t >= L THEN Dot(bc, bc) * rd2 <= rn2
       ELSE (L * Dot(ac, ac) - t * t) * rd2 <= rn2 * L

\* the brush kernel: cells within radius of the segment take the brush colour
\* (1.0, full strength) and the stroke direction is added to their velocity;
\* every other cell is passed through from the input slot
add_forces_cells(k, bg, u) ==
    LET din == bg[1]
        dout == bg[2]
        vin == bg[3]
        vout == bg[4]
        inside(x) == WithinRadius(Centre(x), u.last_mouse_pos, u.mouse_pos, u.radius)
        push == (u.mouse_pos[1] - u.last_mouse_pos[1]) * (k.unit[vin] \div 2)
    IN [k EXCEPT !.f = [@ EXCEPT ![dout] = [x \in Cells |-> IF inside(x) THEN k.unit[din] ELSE k.f[din][x]],
                                 ![vout] = [x \in Cells |-> IF inside(x) THEN k.f[vin][x] + push ELSE k.f[vin][x]]],
                 !.unit = [@ EXCEPT ![dout] = k.unit[din], ![vout] = k.unit[vin]]]

\* copy_texture_to_texture
copy_cells(k, cmd) ==
    LET s == CHOOSE r \in cmd.reads : TRUE
        d == CHOOSE w \in cmd.writes : TRUE
    IN [k EXCEPT !.f = [@ EXCEPT ![d] = k.f[s]], !.unit = [@ EXCEPT ![d] = k.unit[s]]]

KernelSlots == {"density_a", "density_b", "velocity_a", "velocity_b"}

KernelStart(den, vel, decay) ==
    [phase |-> "advect", steps |-> 0, stamps |-> 0, op |-> "none", prev |-> << >>,
     params |-> [ink_decay |-> decay, velocity_decay |-> <<1, 1>>, zoom_level |-> zoom_level],
     f |-> [t \in KernelSlots |-> IF t = "density_a" THEN den
                                  ELSE IF t = "velocity_a" THEN vel ELSE [x \in Cells |-> 0]],
     unit |-> [t \in KernelSlots |-> IF FieldOf(t) = "velocity" THEN 2 ELSE 1],
     stamp |-> [mouse_pos |-> <<0, 0>>, last_mouse_pos |-> <<0, 0>>, radius |-> <<0, 1>>]]

InitKernel ==
    /\ InitProgram({KernelGrid})
    /\ build = "fluid"
    /\ kernel \in {KernelStart(den, vel, decay) : den \in [Cells -> KernelDensities],
                                                  vel \in [Cells -> KernelVelocities],
                                                  decay \in InkDecays}
    /\ trace = TraceOff
    /\ calc = CalcOff

program == <<build, tex, fresh, batch, done, last, frames, snap, is_surface_configured,
             mouse_pos, last_mouse_pos, mouse_pressed, clear_requested, frame_num,
             result, uniform, sim, size, config>>

\* the slots as a kernel found them
Before(k) == [f |-> k.f, unit |-> k.unit]

\* the advection dispatch of FluidSim::advect
KernelAdvect ==
    /\ kernel.phase = "advect"
    /\ kernel.steps < MaxSteps
    /\ kernel' = [advect_cells(kernel, advect_bind_group, AdvectionUniforms(kernel.params))
                     EXCEPT !.phase = "brush", !.steps = @ + 1, !.op = "advect", !.prev = Before(kernel)]
    /\ UNCHANGED <<program, trace, calc>>

\* the brush dispatch of FluidSim::add_forces
KernelBrush(current_pos, last_pos, brush_size) ==
    /\ kernel.phase = "brush"
    /\ kernel.stamps < MaxStamps
    /\ LET u == BrushUniforms(current_pos, last_pos, kernel.params @@ [brush_size |-> brush_size])
       IN kernel' = [add_forces_cells(kernel, brush_bind_group, u)
                        EXCEPT !.phase = "advect", !.stamps = @ + 1, !.op = "brush", !.stamp = u,
                               !.prev = Before(kernel)]
    /\ UNCHANGED <<program, trace, calc>>

\* the copy-through of a frame without a stamp
KernelCopyThrough ==
    /\ kernel.phase = "brush"
    /\ kernel' = [copy_cells(copy_cells(kernel, copy_through[1]), copy_through[2])
                     EXCEPT !.phase = "advect", !.op = "copy_through", !.prev = Before(kernel)]
    /\ UNCHANGED <<program, trace, calc>>

NextKernel ==
    \/ KernelAdvect
    \/ \E s \in KernelStrokes, b \in BrushSizes : KernelBrush(s[2], s[1], b)
    \/ KernelCopyThrough

SpecKernel == InitKernel /\ [][NextKernel]_vars

\* ------------------------------------------- the arithmetic, value by value
\* The workgroup counts of a dispatch and the coefficients of the diffusion
\* solver, computed as the code computes them from single inputs.
MaxDim == 40
\* wgpu::Limits::default(): max_texture_dimension_2d, the largest extent a
\* grid texture can be created with
MaxTextureDimension == 8192
WorkgroupSize == 16

Dims == (1..MaxDim) \cup {MaxTextureDimension - 1, MaxTextureDimension}
ArithViscosities == {<<-1, 1>>, <<0, 1>>, <<1, 1000>>, <<1, 10>>, <<1, 1>>, <<5, 1>>, <<1000, 1>>}

\* `n as f32` for a u32 n below 2^25: exact up to 2^24, then the nearest
\* even integer, ties to the even significand
as_f32(n) ==
    IF n <= 16777216 THEN n
    ELSE IF n % 2 = 0 THEN n
    ELSE IF (n \div 2) % 2 = 0 THEN n - 1 ELSE n + 1

\* as groups_f32, but without the ceil()
groups_f32_floor(n) == as_f32(n) \div 16
\* (n as f32 / 16.0).ceil() as u32: the division by a power of two is exact
groups_f32(n) ==
    LET x == as_f32(n)
    IN (x \div 16) + (IF x % 16 = 0 THEN 0 ELSE 1)

\* (n + workgroup_size - 1) / workgroup_size in u32; n + 15 stays below 2^32
\* for every extent a texture can have
groups_u32(n) == (n + WorkgroupSize - 1) \div WorkgroupSize

CalcStart(width, height, viscosity) ==
    [phase |-> "input", width |-> width, height |-> height, viscosity |-> viscosity,
     x_groups |-> 0, y_groups |-> 0, x_groups_u32 |-> 0, y_groups_u32 |-> 0,
     evaluated |-> FALSE, divisor |-> <<0, 1>>, alpha |-> <<0, 1>>, beta |-> <<0, 1>>, one_over_beta |-> <<0, 1>>]

InitArith ==
    /\ InitProgram({KernelGrid})
    /\ build = "fluid"
    /\ kernel = KernelOff
    /\ trace = TraceOff
    /\ calc \in {CalcStart(w, h, v) : w \in Dims, h \in Dims, v \in ArithViscosities}

\* the workgroup counts of FluidSim and Canvas::render (f32) and of
\* record_compute_pass (u32) for one grid
DispatchGroups ==
    /\ calc.phase = "input"
    /\ calc' = [calc EXCEPT !.phase = "groups",
                            !.x_groups = groups_f32(calc.width), !.y_groups = groups_f32(calc.height),
                            !.x_groups_u32 = groups_u32(calc.width), !.y_groups_u32 = groups_u32(calc.height)]
    /\ UNCHANGED <<program, kernel, trace>>

\* FluidSim::diffuse up to the uniform write, for one viscosity
DiffuseCoefficients ==
    /\ calc.phase = "input"
    /\ calc' = IF calc.viscosity[1] * calc.viscosity[2] <= 0
               THEN [calc EXCEPT !.phase = "diffuse"]
               ELSE [calc EXCEPT !.phase = "diffuse", !.evaluated = TRUE,
                                 !.divisor = RatMul(calc.viscosity, Dt),
                                 !.alpha = diffuse_alpha(calc.viscosity),
                                 !.beta = diffuse_beta(calc.viscosity),
                                 !.one_over_beta = RatDiv(<<1, 1>>, diffuse_beta(calc.viscosity))]
    /\ UNCHANGED <<program, kernel, trace>>

NextArith ==
    \/ DispatchGroups
    \/ DiffuseCoefficients

SpecArith == InitArith /\ [][NextArith]_vars

\* ------------------------------------------------------------ properties
Tag(c) == <<c.op, c.fr, c.it>>

FluidFrame == build = "fluid" /\ frames > 0 /\ ~snap.clear

\* the command executed last was the final command of FluidSim::clear
ClearDone ==
    /\ last.cmd.kind = "clear"
    /\ done > 0
    /\ done = Len(batch) \/ batch[done + 1].kind # "clear"

StageOrder(b) == [i \in 1..Len(b) |-> b[i].op]

RECURSIVE Dedup(_)
Dedup(q) ==
    IF Len(q) <= 1 THEN q
    ELSE IF q[1] = q[2] THEN Dedup(Tail(q)) ELSE <<q[1]>> \o Dedup(Tail(q))

\* C1: every dispatch of a submitted frame (advection, brush, divergence,
\* pressure Jacobi, gradient subtract, diffusion Jacobi, the ping-pong compute
\* pass) binds disjoint sets of textures for reading and for writing.
C1_DisjointReadWrite ==
    \A i \in 1..Len(batch) :
        batch[i].kind = "dispatch" => batch[i].reads \cap batch[i].writes = {}

C1_Witness ==
    /\ build = "fluid"
    /\ Idle
    /\ \E i \in 1..Len(batch) : batch[i].op = "diffuse"
    /\ \E i \in 1..Len(batch) : batch[i].op = "brush"
    /\ \E i \in 1..Len(batch) : batch[i].op = "subtract"

\* C2: once a frame of the FluidSim stage sequence has been executed, pressed
\* or not, density_a holds the last density result of that frame (the brush
\* output, or the advected result copied through from density_b) and
\* velocity_a holds the projected velocity; the divergence pass of the frame
\* already reads that frame's brushed or copied-through velocity from slot A.
C2_SlotAHoldsFrameResult ==
    /\ (FluidFrame /\ Idle) =>
          /\ Tag(tex["density_a"]) = <<IF snap.pressed THEN "brush" ELSE "advect", frames, 0>>
          /\ ~snap.pressed => tex["density_a"] = tex["density_b"]
          /\ Tag(tex["velocity_a"]) = <<"subtract", frames, 0>>
    /\ (FluidFrame /\ last.cmd.op = "divergence") =>
          Tag(last.saw["velocity_a"]) = <<IF snap.pressed THEN "brush" ELSE "advect", frames, 0>>

C2_Witness ==
    /\ FluidFrame
    /\ Idle
    /\ ~snap.pressed
    /\ tex["density_a"].op = "advect"
    /\ tex["density_a"].nz

\* C3: after k diffusion iterations the newest iterate is in density_a when k
\* is even and in density_b when k is odd; after the coded number of
\* iterations it is in density_a, which advection reads without a copy-back.
C3_DiffuseParity ==
    /\ last.cmd.op = "diffuse" =>
          LET k == last.cmd.it + 1
              slot == IF k % 2 = 0 THEN "density_a" ELSE "density_b"
              other == IF k % 2 = 0 THEN "density_b" ELSE "density_a"
          IN /\ Tag(tex[slot]) = <<"diffuse", frames, k - 1>>
             /\ Tag(tex[other]) # <<"diffuse", frames, k - 1>>
    /\ (FluidFrame /\ last.cmd.op = "advect" /\ snap.viscosity > 0) =>
          Tag(last.saw["density_a"]) = <<"diffuse", frames, DiffuseIters - 1>>

C3_Witness ==
    /\ last.cmd.op = "advect"
    /\ snap.viscosity > 0
    /\ last.saw["density_a"].op = "diffuse"
    /\ last.saw["density_a"].nz

\* C4: gradient subtract reads pressure_a, and pressure_a then holds the
\* output of the last pressure Jacobi iteration of the frame.
C4_FinalPressureInA ==
    last.cmd.op = "subtract" =>
        /\ "pressure_a" \in last.cmd.reads
        /\ "pressure_b" \notin last.cmd.reads
        /\ Tag(last.saw["pressure_a"]) = <<"jacobi", frames, JacobiIters - 1>>

C4_Witness ==
    /\ last.cmd.op = "subtract"
    /\ last.saw["pressure_a"].nz

\* C5: the pressure slot read by the first Jacobi iteration of a projection
\* is all zero.
C5_PressureStartsZero ==
    (last.cmd.op = "jacobi" /\ last.cmd.it = 0) =>
        \A r \in last.cmd.reads : FieldOf(r) = "pressure" => ~last.saw[r].nz

\* C6: gradient subtract reads velocity_a and pressure_a and writes only
\* velocity_b; once the copy-back of project has run, velocity_a equals
\* velocity_b and is the gradient-subtracted velocity of the frame, and it is
\* what the render passes and the next advection find in slot A.
C6_VelocityCopyBack ==
    /\ last.cmd.op = "subtract" =>
          /\ last.cmd.reads = {"velocity_a", "pressure_a"}
          /\ last.cmd.writes = {"velocity_b"}
    /\ (FluidFrame /\ last.cmd.op \in {"copy_back", "canvas", "gui"}) =>
          /\ tex["velocity_a"] = tex["velocity_b"]
          /\ Tag(tex["velocity_a"]) = <<"subtract", frames, 0>>
    /\ (FluidFrame /\ last.cmd.op = "advect") =>
          last.saw["velocity_a"].op \in {"subtract", "zero"}

C6_Witness ==
    /\ FluidFrame
    /\ last.cmd.op = "advect"
    /\ last.saw["velocity_a"].op = "subtract"
    /\ last.saw["velocity_a"].nz

\* C7: a frame records Diffusion, Advection, Brush (or the copy-through),
\* Divergence, the pressure iterations, GradientSubtract and the copy-back in
\* this order, and every command reads only slots that hold the most recently
\* written value of their field.
C7_StageOrderAndFreshReads ==
    /\ FluidFrame =>
          Dedup(StageOrder(batch)) =
              (IF snap.viscosity > 0 THEN <<"snapshot", "diffuse">> ELSE << >>)
              \o <<"advect">>
              \o (IF snap.pressed THEN <<"brush">> ELSE <<"copy_through">>)
              \o <<"divergence", "jacobi", "subtract", "copy_back", "canvas", "gui">>
    /\ build = "fluid" => last.cmd.reads \subseteq last.fresh
    /\ last.cmd.op = "diffuse" /\ last.cmd.it = 0 => "density_a" \in last.cmd.reads
    /\ (FluidFrame /\ last.cmd.op = "advect") =>
          /\ last.cmd.reads = {"velocity_a", "density_a"}
          /\ last.cmd.writes = {"velocity_b", "density_b"}
    /\ (FluidFrame /\ last.cmd.op = "brush") =>
          /\ last.cmd.reads = {"velocity_b", "density_b"}
          /\ last.cmd.writes = {"velocity_a", "density_a"}
    /\ last.cmd.op = "divergence" => last.cmd.reads = {"velocity_a"}
    /\ last.cmd.op = "subtract" => "velocity_a" \in last.cmd.reads

C7_Witness ==
    /\ FluidFrame
    /\ snap.pressed
    /\ snap.viscosity > 0
    /\ last.cmd.op = "subtract"
    /\ frames > 1

\* C8: when FluidSim::clear has been executed, both slots of density, of
\* velocity and of pressure, and divergence are all zero, whatever they held.
C8_ClearZeroesFields ==
    ClearDone => \A t \in Textures \ {"temp_density"} : tex[t] = Zero

C8_Witness ==
    /\ ClearDone
    /\ last.saw["divergence"].nz
    /\ last.cmd.writes = {"divergence"}

\* C9: when FluidSim::clear has been executed, no texture of
\* create_sim_textures, temp_density included, holds a non-zero value.
C9_ClearZeroesEverything ==
    ClearDone => \A t \in Textures : ~tex[t].nz

\* C10: a frame rendered with clear_requested set issues none of the
\* diffusion, advection, brush or projection stages, pressed or not: its
\* simulation commands are exactly the clears.
C10_ClearTakesPriority ==
    (build = "fluid" /\ frames > 0 /\ snap.clear) =>
        /\ \A i \in 1..Len(batch) : batch[i].kind \in {"clear", "draw"}
        /\ \A t \in Textures \ {"temp_density"} : \E i \in 1..Len(batch) : batch[i] = ClearTex(t)

C10_Witness ==
    /\ build = "fluid"
    /\ frames > 0
    /\ snap.clear
    /\ snap.pressed
    /\ Idle

\* C11: a Delete request stays pending over every step that is not a rendered
\* frame (other events, further Delete presses, frames skipped because the
\* surface is not configured or not acquired); the next rendered frame
\* presents it to its canvas update and leaves it false, so the frame after
\* that does not clear again unless Delete was pressed again.
C11_ClearPendingUntilFrame ==
    [][build = "fluid" =>
          /\ (clear_requested /\ frames' = frames) => clear_requested'
          /\ frames' # frames =>
                /\ frames' = frames + 1
                /\ result' = "ok"
                /\ snap'.clear = clear_requested
                /\ ~clear_requested'
                /\ (\E i \in 1..Len(batch') : batch'[i].kind = "clear") <=> clear_requested
          /\ (result' # result /\ result' \in {"skipped", "error"}) => clear_requested' = clear_requested
    ]_vars

C11_Witness ==
    /\ build = "fluid"
    /\ frames >= 2
    /\ snap.clear
    /\ ~clear_requested
    /\ ~snap.pressed
    /\ result = "ok"

\* C12: a frame is all or nothing. A render call that returns early (surface
\* not configured: skipped; no surface texture: error) records and submits
\* nothing and leaves the fields, frame_num, clear_requested, last_mouse_pos
\* and the uniforms as they were. Any other render call records every pass
\* into one batch, ending with the draw passes, and submits it once: the queue
\* then executes each command once, in order, and only the queue changes
\* field contents.
C12_FrameAllOrNothing ==
    [][(build = "fluid" \/ build = "pingpong") =>
          /\ (result' # result /\ result' \in {"skipped", "error"}) =>
                /\ result' = "skipped" <=> ~is_surface_configured
                /\ UNCHANGED <<tex, fresh, batch, done, frames, frame_num, clear_requested,
                               last_mouse_pos, uniform>>
          /\ batch' # batch => frames' = frames + 1
          /\ frames' # frames =>
                /\ frames' = frames + 1
                /\ is_surface_configured
                /\ result' = "ok"
                /\ done = Len(batch)
                /\ done' = 0
                /\ tex' = tex
                /\ Len(batch') >= 2
                /\ batch'[Len(batch')].kind = "draw"
                /\ \A i \in 1..(Len(batch') - 1) :
                      batch'[i].kind = "draw" => batch'[i + 1].kind = "draw"
          /\ (done' # done /\ frames' = frames) => (done' = done + 1 /\ batch' = batch)
          /\ tex' # tex => (done' = done + 1 /\ frames' = frames)
    ]_vars

C12_Witness ==
    /\ build = "fluid"
    /\ result = "error"
    /\ frames > 0
    /\ clear_requested
    /\ mouse_pos # last_mouse_pos
    /\ tex["density_a"].nz

\* C17: pointer-move events change mouse_pos and nothing else; last_mouse_pos
\* changes only in a rendered frame, which sets it to mouse_pos after the
\* canvas update has been given the segment from the old last_mouse_pos to
\* mouse_pos (as the brush uniforms, in grid space, when the brush runs);
\* frames that return early do not advance it, so the segment of a frame
\* starts where the previous rendered frame ended.
C17_BrushSegmentEndpoints ==
    [][build = "fluid" =>
          /\ mouse_pos' # mouse_pos =>
                UNCHANGED <<build, tex, fresh, batch, done, last, frames, snap, is_surface_configured,
                            last_mouse_pos, mouse_pressed, clear_requested, frame_num,
                            result, uniform, sim, size, config, kernel>>
          /\ last_mouse_pos' # last_mouse_pos => frames' = frames + 1
          /\ frames > 0 => last_mouse_pos = snap.to
          /\ (result' # result /\ result' \in {"skipped", "error"}) => last_mouse_pos' = last_mouse_pos
          /\ frames' # frames =>
                /\ mouse_pos' = mouse_pos
                /\ last_mouse_pos' = mouse_pos
                /\ snap'.from = last_mouse_pos
                /\ snap'.to = mouse_pos
                /\ (mouse_pressed /\ ~clear_requested) =>
                      /\ uniform'.brush.fr = frames'
                      /\ uniform'.brush.last_mouse_pos =
                            to_grid(last_mouse_pos, config.width, sim.width, zoom_level)
                      /\ uniform'.brush.mouse_pos = to_grid(mouse_pos, config.width, sim.width, zoom_level)
                      /\ zoom_level[1] * (uniform'.brush.mouse_pos - uniform'.brush.last_mouse_pos)
                            = uniform'.brush.unit * zoom_level[2] * (mouse_pos - last_mouse_pos)
    ]_vars

C17_Witness ==
    /\ build = "fluid"
    /\ frames >= 2
    /\ snap.pressed
    /\ ~snap.clear
    /\ snap.from # snap.to
    /\ uniform.brush.fr = frames
    /\ uniform.brush.mouse_pos # uniform.brush.last_mouse_pos

C14_GridSizeFixed ==
    /\ [](/\ Cardinality(DOMAIN size) = 8
          /\ \A t \in DOMAIN size : size[t].width = sim.width /\ size[t].height = sim.height)
    /\ [][sim' = sim /\ size' = size]_vars

C14_Witness ==
    /\ build = "fluid"
    /\ is_surface_configured
    /\ config.width # sim.width \/ config.height # sim.height
    /\ frames > 1
    /\ snap.clear
    /\ ClearDone

\* C15: the draw passes (canvas render pass, GUI) have no field slot as a
\* target: the canvas render pass samples one density slot, the GUI none, and
\* executing a draw pass leaves every slot as it was.
C15_DrawPassesOnlyRead ==
    /\ \A i \in 1..Len(batch) :
          batch[i].kind = "draw" =>
              /\ batch[i].writes = {}
              /\ \A t \in batch[i].reads : FieldOf(t) = "density"
              /\ Cardinality(batch[i].reads) = IF batch[i].op = "gui" THEN 0 ELSE 1
    /\ last.cmd.kind = "draw" => (tex = last.saw /\ fresh = last.fresh)

C15_Witness ==
    /\ last.cmd.kind = "draw"
    /\ last.cmd.op = "canvas"
    /\ \E t \in last.cmd.reads : tex[t].nz

\* C16: in Canvas::render the density slot bound for display holds the most
\* recently written density (the output of the latest brush stage), whatever
\* the pressed / not-pressed pattern of the frames so far.
C16_DisplaysAuthoritativeSlot ==
    (build = "canvas" /\ last.cmd.kind = "draw") => last.cmd.reads \subseteq last.fresh

\* C20: during one diffusion temp_density is written once, by the copy of
\* density_a that precedes the first iteration; every iteration binds it as
\* the fixed source b (binding 2) and never as x_in or as the output, so each
\* iteration finds in it what density_a held when the frame began.
C20_SnapshotFixedSource ==
    /\ \A k \in 1..2 :
          /\ diffuse_bind_groups[k][2] = "temp_density"
          /\ diffuse_bind_groups[k][1] # "temp_density"
          /\ diffuse_bind_groups[k][3] # "temp_density"
    /\ (FluidFrame /\ snap.viscosity > 0) =>
          /\ {i \in 1..Len(batch) : "temp_density" \in batch[i].writes} = {1}
          /\ batch[1] = CopyTex("snapshot", "density_a", "temp_density")
          /\ \A i \in 1..Len(batch) :
                batch[i].op = "diffuse" =>
                    "temp_density" \in batch[i].reads /\ "temp_density" \notin batch[i].writes
    /\ last.cmd.op = "diffuse" =>
          /\ last.saw["temp_density"].fr < frames
          /\ tex["temp_density"] = last.saw["temp_density"]
          /\ last.cmd.it = 0 => last.saw["temp_density"] = last.saw["density_a"]

C20_Witness ==
    /\ last.cmd.op = "diffuse"
    /\ last.cmd.it = 49
    /\ last.saw["temp_density"].nz
    /\ tex["density_a"] # last.saw["temp_density"]

\* the slot of its own field (density for diffusion, pressure for relaxation)
\* that a Jacobi iteration reads
JacobiField(cmd) == IF cmd.op = "diffuse" THEN "density" ELSE "pressure"
JacobiSource(cmd) == {r \in cmd.reads : FieldOf(r) = JacobiField(cmd)}

\* C21: in both Jacobi loops (diffusion over density, relaxation over
\* pressure) iteration 0 reads slot A, and every iteration i >= 1 reads the
\* slot that iteration i - 1 wrote: it is recorded right after iteration
\* i - 1 with that iteration's output as its input, and when it executes the
\* slot holds what iteration i - 1 of the same frame put there.
C21_JacobiReadsPreviousWrite ==
    /\ \A i \in 1..Len(batch) :
          batch[i].op \in {"diffuse", "jacobi"} =>
              IF batch[i].it = 0
              THEN JacobiSource(batch[i]) = {IF batch[i].op = "diffuse" THEN "density_a" ELSE "pressure_a"}
              ELSE /\ i > 1
                   /\ batch[i - 1].op = batch[i].op
                   /\ batch[i - 1].it = batch[i].it - 1
                   /\ JacobiSource(batch[i]) = batch[i - 1].writes
    /\ (last.cmd.op \in {"diffuse", "jacobi"} /\ last.cmd.it >= 1) =>
          \A r \in JacobiSource(last.cmd) : Tag(last.saw[r]) = <<last.cmd.op, frames, last.cmd.it - 1>>

C21_Witness ==
    /\ FluidFrame
    /\ snap.viscosity > 0
    /\ last.cmd.op = "jacobi"
    /\ last.cmd.it = 1
    /\ JacobiSource(last.cmd) = {"pressure_b"}
    /\ Tag(last.saw["pressure_b"]) = <<"jacobi", frames, 0>>
    /\ \E i \in 1..Len(batch) : batch[i].op = "diffuse" /\ batch[i].it = 1 /\ JacobiSource(batch[i]) = {"density_b"}

\* C22: within one projection the divergence texture is written exactly
\* once, by the divergence pass, from velocity A, before the first relaxation
\* iteration; no Jacobi iteration, gradient subtraction or copy-back writes
\* it, and every Jacobi iteration reads the divergence that pass left there.
C22_DivergenceWrittenOnce ==
    /\ FluidFrame =>
          LET w == {i \in 1..Len(batch) : "divergence" \in batch[i].writes}
          IN /\ Cardinality(w) = 1
             /\ \A i \in w :
                   /\ batch[i].op = "divergence"
                   /\ batch[i].reads = {"velocity_a"}
                   /\ i < Len(batch)
                   /\ batch[i + 1].op = "jacobi"
                   /\ batch[i + 1].it = 0
                   /\ \A j \in 1..Len(batch) :
                         batch[j].op = "jacobi" => (j > i /\ "divergence" \in batch[j].reads)
    /\ (FluidFrame /\ last.cmd.op \in {"jacobi", "subtract", "copy_back"}) =>
          /\ Tag(last.saw["divergence"]) = <<"divergence", frames, 0>>
          /\ tex["divergence"] = last.saw["divergence"]

C22_Witness ==
    /\ FluidFrame
    /\ frames = 2
    /\ last.cmd.op = "jacobi"
    /\ last.cmd.it = JacobiIters - 1
    /\ last.saw["divergence"].nz
    /\ Tag(tex["divergence"]) = <<"divergence", 2, 0>>

\* C23: in the frame-parity loop a rendered frame with counter n reads the
\* textures n mod 2 (A for even n) in its compute pass and writes the others,
\* and its render pass draws the density just written; frame_num counts the
\* rendered frames (a skipped frame adds nothing); so the compute pass finds
\* in the textures it reads what the previous rendered frame wrote, and the
\* initial data of the A textures on frame 0.
C23_FrameParityPingPong ==
    build = "pingpong" =>
        /\ frame_num = frames
        /\ frames > 0 =>
              LET n == frame_num - 1
                  rd == IF n % 2 = 0 THEN {"density_a", "velocity_a"} ELSE {"density_b", "velocity_b"}
                  wr == IF n % 2 = 0 THEN {"density_b", "velocity_b"} ELSE {"density_a", "velocity_a"}
              IN /\ Len(batch) = 2
                 /\ batch[1].kind = "dispatch"
                 /\ batch[1].reads = rd
                 /\ batch[1].writes = wr
                 /\ batch[2].kind = "draw"
                 /\ batch[2].reads = {t \in wr : FieldOf(t) = "density"}
        /\ last.cmd.kind = "dispatch" =>
              \A r \in last.cmd.reads :
                  IF frames = 1
                  THEN r \in {"density_a", "velocity_a"} /\ last.saw[r] = create_ping_pong_textures[r]
                  ELSE Tag(last.saw[r]) = <<"compute", frames - 1, 0>>
        /\ last.cmd.kind = "draw" =>
              \A r \in last.cmd.reads : Tag(last.saw[r]) = <<"compute", frames, 0>>

C23_Witness ==
    /\ build = "pingpong"
    /\ frames = 2
    /\ frame_num = 2
    /\ result = "error"
    /\ last.cmd.kind = "draw"
    /\ last.cmd.reads = {"density_a"}
    /\ Tag(tex["velocity_a"]) = <<"compute", 2, 0>>
    /\ tex["velocity_a"].nz

C27_BrushOnlyWhenPressed ==
    /\ [](build = "canvas" /\ frames > 0 =>
             LET n == frame_num - 1
             IN IF snap.pressed
                THEN /\ Cardinality({i \in 1..Len(batch) : batch[i].kind = "dispatch"}) = 1
                     /\ batch[1] = Dispatch("brush", 0, brush_layout, brush_bind_groups[(n % 2) + 1])
                     /\ batch[1].reads = (IF n % 2 = 0 THEN {"density_a", "velocity_a"}
                                                       ELSE {"density_b", "velocity_b"})
                ELSE \A i \in 1..Len(batch) : batch[i].writes = {} /\ batch[i].kind = "draw")
    /\ [][build = "canvas" =>
             /\ uniform'.brush # uniform.brush => (mouse_pressed /\ batch' = batch /\ frames' = frames)
             /\ (done' = done + 1 /\ ~snap.pressed) => tex' = tex
      ]_vars

C27_Witness ==
    /\ build = "canvas"
    /\ frames = 2
    /\ Idle
    /\ ~snap.pressed
    /\ uniform.brush.fr = 1
    /\ Tag(tex["density_b"]) = <<"brush", 1, 0>>
    /\ tex["density_a"] = Zero

\* ------------------------------------------- properties of the event handlers
\* C28: is_surface_configured is false after construction, becomes true only
\* through a resize with width > 0 and height > 0, and never returns to
\* false; a resize with width = 0 or height = 0 leaves is_surface_configured
\* and the stored surface size unchanged.
C28_SurfaceConfiguredLatch ==
    /\ ~is_surface_configured
    /\ [][/\ is_surface_configured => is_surface_configured'
          /\ is_surface_configured' # is_surface_configured =>
                (trace'.kind = "resize" /\ trace'.width > 0 /\ trace'.height > 0)
          /\ config' # config => trace'.kind = "resize"
          /\ trace'.kind = "resize" =>
                IF trace'.width > 0 /\ trace'.height > 0
                THEN is_surface_configured' /\ config' = [width |-> trace'.width, height |-> trace'.height]
                ELSE is_surface_configured' = is_surface_configured /\ config' = config
      ]_vars

C28_Witness ==
    /\ is_surface_configured
    /\ frames > 0
    /\ trace.kind = "resize"
    /\ trace.width = 0
    /\ trace.height = 1
    /\ config = [width |-> 1, height |-> 1]

\* C29: after any sequence of events mouse_pressed is true exactly when the
\* most recent click of the Left button was a press (false while there was
\* none); a click of another button leaves mouse_pressed unchanged; no click
\* changes mouse_pos, last_mouse_pos or clear_requested.
C29_MousePressedFollowsLeftClick ==
    /\ [](mouse_pressed = trace.left)
    /\ [][trace'.kind = "click" =>
             /\ mouse_pressed' = (IF trace'.button = "Left" THEN trace'.pressed ELSE mouse_pressed)
             /\ UNCHANGED <<mouse_pos, last_mouse_pos, clear_requested>>
      ]_vars

C29_Witness ==
    /\ trace.kind = "click"
    /\ trace.button = "Right"
    /\ ~trace.pressed
    /\ trace.left
    /\ mouse_pressed
    /\ clear_requested
    /\ mouse_pos # last_mouse_pos

\* C30: a key release changes nothing; among the key presses only Delete
\* changes the interaction state, and it sets clear_requested without
\* touching the pointer fields; clear_requested becomes true only by a Delete
\* press and false only by a rendered frame.
C30_OnlyDeleteRequestsClear ==
    [][build = "fluid" =>
          /\ trace'.kind = "key" =>
                IF trace'.pressed /\ trace'.key = "Delete"
                THEN clear_requested' /\ UNCHANGED <<mouse_pos, last_mouse_pos, mouse_pressed>>
                ELSE UNCHANGED input
          /\ (clear_requested' /\ ~clear_requested) =>
                (trace'.kind = "key" /\ trace'.key = "Delete" /\ trace'.pressed)
          /\ (~clear_requested' /\ clear_requested) =>
                (trace'.kind = "frame" /\ frames' = frames + 1 /\ result' = "ok")
    ]_vars

C30_Witness ==
    /\ build = "fluid"
    /\ frames > 0
    /\ snap.clear
    /\ trace.kind = "key"
    /\ trace.key = "Delete"
    /\ ~trace.pressed
    /\ ~clear_requested
    /\ mouse_pressed

\* ------------------------------------------------- properties of the kernels
\* slot t holds in cell x now what slot s held in cell x before the last kernel
SameAsBefore(t, s, x) == kernel.unit[t] = kernel.prev.unit[s] /\ kernel.f[t][x] = kernel.prev.f[s][x]

RECURSIVE SumTo(_, _)
SumTo(f, n) == IF n < 0 THEN 0 ELSE f[n] + SumTo(f, n - 1)

Total(f) == SumTo(f, KernelGrid.width - 1)

Largest(f) == CHOOSE m \in {f[x] : x \in Cells} : \A x \in Cells : f[x] <= m

\* C18: after a brush stamp of radius r at one point, in grid cell (cx, cy),
\* every cell farther than r + 1 from (cx, cy) holds in the authoritative
\* slots (density_a, velocity_a) exactly what the authoritative slots before
\* the stamp (density_b, velocity_b, the advected result) held in that cell.
C18_BrushLocality ==
    (kernel.phase # "off" /\ kernel.op = "brush" /\ kernel.stamp.mouse_pos = kernel.stamp.last_mouse_pos) =>
        LET cx == kernel.stamp.mouse_pos[1] \div 2
            cy == kernel.stamp.mouse_pos[2] \div 2
            r == kernel.stamp.radius
        IN \A x \in Cells :
              ((x - cx) * (x - cx) + cy * cy) * r[2] * r[2] > (r[1] + r[2]) * (r[1] + r[2]) =>
                  /\ SameAsBefore("density_a", "density_b", x)
                  /\ SameAsBefore("velocity_a", "velocity_b", x)

C18_Witness ==
    /\ kernel.phase # "off"
    /\ kernel.op = "brush"
    /\ kernel.stamp.mouse_pos = kernel.stamp.last_mouse_pos
    /\ 2 * kernel.stamp.radius[1] = kernel.stamp.radius[2]
    /\ kernel.stamp.mouse_pos[1] \div 2 = 0
    /\ ~SameAsBefore("density_a", "density_b", 0)
    /\ kernel.prev.f["density_b"][2] # 0
    /\ kernel.prev.f["velocity_b"][2] # 0
    /\ SameAsBefore("density_a", "density_b", 2)

RatPositive(q) == q[1] > 0 /\ q[2] > 0

\* C25: for every positive grid width w and height h the workgroup counts
\* gx = ceil(w / 16) and gy = ceil(h / 16) cover the grid with no superfluous
\* group, 16 * (gx - 1) < w <= 16 * gx and likewise for h, and the f32
\* formula of FluidSim and Canvas gives the same counts as the integer
\* formula (w + 15) / 16 of record_compute_pass.
C25_WorkgroupsCoverGrid ==
    calc.phase = "groups" =>
        /\ 16 * (calc.x_groups - 1) < calc.width
        /\ calc.width <= 16 * calc.x_groups
        /\ 16 * (calc.y_groups - 1) < calc.height
        /\ calc.height <= 16 * calc.y_groups
        /\ calc.x_groups = calc.x_groups_u32
        /\ calc.y_groups = calc.y_groups_u32

C25_Witness ==
    /\ calc.phase = "groups"
    /\ calc.width = 17
    /\ calc.x_groups = 2
    /\ calc.height = MaxTextureDimension
    /\ calc.y_groups_u32 = 512

====
